---- MODULE Spec2Model ----
(***************************************************************************)
(* Marketing CRM API (src/main.py, src/schemas.py): a FastAPI layer over   *)
(* four MongoDB collections, "client", "website", "seometric" and          *)
(* "gmbprofile".  The model covers the request handlers of src/main.py,    *)
(* the identifier conversion to_object_id, and the store calls the         *)
(* handlers make (find_one, find, sort, insert_one, delete_one,            *)
(* delete_many).                                                           *)
(*                                                                         *)
(* Spec      every request runs to completion before the next one starts.  *)
(* SpecConc  the writing requests interleave, one store call at a time.    *)
(***************************************************************************)
EXTENDS Integers, Sequences, FiniteSets, TLC

VARIABLES
    db,      \* the store: one set of documents per collection
    nextId,  \* the next ObjectId the store will assign
    last,    \* the request just served and its response, until it is returned
    reqs     \* SpecConc: the requests in flight, one per worker

vars == <<db, nextId, last, reqs>>

(***************************************************************************)
(* Bounds.                                                                 *)
(***************************************************************************)
\* How many documents the store may ever hold identifiers for.
MaxOid == 3
\* The same, when requests interleave (SpecConc).
MaxOidConc == 2
\* How many requests may be in flight at once (SpecConc).
MaxWorkers == 2

(***************************************************************************)
(* Identifiers.                                                            *)
(*                                                                         *)
(* An ObjectId is a 12-byte value; here the bytes are 1..MaxOid.  On the   *)
(* wire an identifier is text.  A text is described by what ObjectId(...)  *)
(* looks at: its length, whether all its characters are hex digits, the    *)
(* value the digits denote, and whether the hex letters are upper case.    *)
(* ObjectId(text) accepts any 24 hex digits in either case; str(ObjectId)  *)
(* always prints lower case.  So two texts denote every ObjectId.          *)
(***************************************************************************)
Oids == 1..MaxOid

Text(len, hex, val, upper) == [len |-> len, hex |-> hex, val |-> val, upper |-> upper]

\* The absent text (a response that carries no id).
NoText == Text(0, FALSE, 0, FALSE)

WellFormedTexts == {Text(24, TRUE, v, u) : v \in Oids, u \in BOOLEAN}

\* A text that is too short, and a 24-character text that is not hex.
MalformedTexts == {Text(23, TRUE, 1, FALSE), Text(24, FALSE, 0, FALSE)}

IdStrings == WellFormedTexts \cup MalformedTexts

\* A lax validity test: every text converts.
ObjectIdValidLax(s) == TRUE

\* to_object_id: ObjectId(id_str) succeeds, else HTTP 400.
ObjectIdValid(s) == s.len = 24 /\ s.hex

\* bson.ObjectId: an object holding the 12 bytes.
ObjectId(bytes) == [bytes |-> bytes]

\* The ObjectId a valid text denotes (case-insensitive).
to_object_id(s) == ObjectId(s.val)

\* str(ObjectId): 24 lower-case hex digits.
str(oid) == Text(24, TRUE, oid.bytes, FALSE)

(***************************************************************************)
(* Payloads (src/schemas.py).  Only valid payloads are modelled; optional  *)
(* fields the handlers never read are left out, except SeoMetric.date,     *)
(* which get_client_detail sorts by.                                       *)
(***************************************************************************)
Names == {"Acme", "Zenith"}
Urls == {"https://acme.example/"}
ListingNames == {"Acme HQ"}

\* A date is text, compared by the store as text: a sequence of character
\* codes.  None (null) is the empty sequence; null sorts below every text.
None == << >>
DateTexts == {<<0, 1>>, <<0, 3>>}
Dates == {None} \cup DateTexts

ClientPayloads == {[name |-> n] : n \in Names}
WebsitePayloads == {[client_id |-> c, url |-> u] : c \in IdStrings, u \in Urls}
SeoMetricPayloads == {[client_id |-> c, date |-> d] : c \in IdStrings, d \in Dates}
GmbProfilePayloads == {[client_id |-> c, listing_name |-> l] : c \in IdStrings, l \in ListingNames}

Dependents == {"website", "seometric", "gmbprofile"}

(***************************************************************************)
(* Store calls.                                                            *)
(***************************************************************************)
EmptyDb == [client |-> {}, website |-> {}, seometric |-> {}, gmbprofile |-> {}]

\* One entry of a handler's log of store calls: the call and how many
\* documents it matched, inserted or deleted.
Call(name, n) == [call |-> name, n |-> n]

\* db["client"].find_one({"_id": cid})
find_one(coll, cid) == {d \in coll : d._id = cid}

\* db[...].find({"client_id": client_id}): equality of the stored text.
find(coll, client_id) == {d \in coll : d.client_id = client_id}

\* A delete_many whose filter matches every document.
delete_many_all(coll, client_id) == {}

\* db[...].delete_many({"client_id": client_id}): what is left.
delete_many(coll, client_id) == {d \in coll : d.client_id # client_id}

\* db["client"].delete_one({"_id": cid}): what is left.
delete_one(coll, cid) == {d \in coll : d._id # cid}

Perms(S) == {f \in [1..Cardinality(S) -> S] : \A x \in S : \E i \in 1..Cardinality(S) : f[i] = x}

\* The store's natural order: insertion order, which is ObjectId order here.
NaturalOrder(S) == CHOOSE f \in Perms(S) : \A i, j \in 1..Cardinality(S) : i < j => f[i]._id.bytes < f[j]._id.bytes

\* Binary comparison of two texts, a <= b.
RECURSIVE TextLeq(_, _)
TextLeq(a, b) ==
    IF a = << >> THEN TRUE
    ELSE IF b = << >> THEN FALSE
    ELSE IF Head(a) # Head(b) THEN Head(a) < Head(b)
    ELSE TextLeq(Tail(a), Tail(b))

\* cursor.sort("date", -1): every order the store may return, descending by
\* date, null last, ties in any order.
SortByDateDesc(S) == {f \in Perms(S) : \A i, j \in 1..Cardinality(S) : i < j => TextLeq(f[j].date, f[i].date)}

\* str(d["_id"]) on every document of a list.
Stringify(seq) == [i \in DOMAIN seq |-> [seq[i] EXCEPT !._id = str(@)]]

(***************************************************************************)
(* database.create_document and database.get_documents.                    *)
(***************************************************************************)
\* Insert the model's fields as one new document; return its id as text.
create_document(store, coll, data, oid) ==
    [db |-> [store EXCEPT ![coll] = @ \cup {data @@ [_id |-> oid]}], id |-> str(oid)]

\* Every document of a collection, in natural order.
get_documents(store, coll) == NaturalOrder(store[coll])

(***************************************************************************)
(* Responses.                                                              *)
(***************************************************************************)
Response(status, calls) ==
    [status |-> status, id |-> NoText, items |-> << >>, client |-> {},
     websites |-> << >>, seo |-> << >>, gmb |-> << >>, calls |-> calls]

Result(store, resp) == [db |-> store, resp |-> resp]

(***************************************************************************)
(* Handlers, as functions of the store: the store afterwards and the       *)
(* response.                                                               *)
(***************************************************************************)
\* POST /clients
create_client(store, oid, client) ==
    LET r == create_document(store, "client", client, oid)
    IN  Result(r.db, [Response(200, <<Call("client.insert_one", 1)>>) EXCEPT !.id = r.id])

\* An existence check that always succeeds.
ClientExistsAlways(store, cid) == TRUE

\* db["client"].find_one({"_id": cid}) is truthy.
ClientExists(store, cid) == find_one(store.client, cid) # {}

\* The body shared by create_website, create_seo_metric, create_gmb_profile.
create_dependent(store, oid, coll, data) ==
    IF ~ObjectIdValid(data.client_id)
    THEN Result(store, Response(400, << >>))
    ELSE LET cid == to_object_id(data.client_id)
             n == Cardinality(find_one(store.client, cid))
         IN  IF ~ClientExists(store, cid)
             THEN Result(store, Response(404, <<Call("client.find_one", n)>>))
             ELSE LET r == create_document(store, coll, data, oid)
                  IN  Result(r.db, [Response(200, <<Call("client.find_one", n),
                                                     Call(coll \o ".insert_one", 1)>>)
                                    EXCEPT !.id = r.id])

\* POST /websites
create_website(store, oid, website) == create_dependent(store, oid, "website", website)

\* POST /seo
create_seo_metric(store, oid, metric) == create_dependent(store, oid, "seometric", metric)

\* POST /gmb
create_gmb_profile(store, oid, profile) == create_dependent(store, oid, "gmbprofile", profile)

\* A list_clients that returns the documents as stored.
list_clients_raw(store) ==
    Result(store, [Response(200, <<Call("client.find", Cardinality(store.client))>>)
                   EXCEPT !.items = get_documents(store, "client")])

\* GET /clients
list_clients(store) ==
    Result(store, [Response(200, <<Call("client.find", Cardinality(store.client))>>)
                   EXCEPT !.items = Stringify(get_documents(store, "client"))])

\* GET /clients/{client_id}: every response the handler may give.
get_client_detail(store, client_id) ==
    IF ~ObjectIdValid(client_id)
    THEN {Result(store, Response(400, << >>))}
    ELSE LET cid == to_object_id(client_id)
             client == find_one(store.client, cid)
             websites == find(store.website, client_id)
             seo == find(store.seometric, client_id)
             gmb == find(store.gmbprofile, client_id)
         IN  IF client = {}
             THEN {Result(store, Response(404, <<Call("client.find_one", 0)>>))}
             ELSE {Result(store,
                     [Response(200, <<Call("client.find_one", 1),
                                      Call("website.find", Cardinality(websites)),
                                      Call("seometric.find", Cardinality(seo)),
                                      Call("gmbprofile.find", Cardinality(gmb))>>)
                      EXCEPT !.client = {[c EXCEPT !._id = str(@)] : c \in client},
                             !.websites = Stringify(NaturalOrder(websites)),
                             !.seo = Stringify(s),
                             !.gmb = Stringify(NaturalOrder(gmb))])
                   : s \in SortByDateDesc(seo)}

\* A delete_client that returns 404 before the cascade.
delete_client_guarded(store, client_id) ==
    IF ~ObjectIdValid(client_id)
    THEN Result(store, Response(400, << >>))
    ELSE LET cid == to_object_id(client_id)
             deleted_count == Cardinality(find_one(store.client, cid))
         IN  IF deleted_count = 0
             THEN Result(store, Response(404, <<Call("client.delete_one", 0)>>))
             ELSE Result([client |-> delete_one(store.client, cid),
                          website |-> delete_many(store.website, client_id),
                          seometric |-> delete_many(store.seometric, client_id),
                          gmbprofile |-> delete_many(store.gmbprofile, client_id)],
                         Response(200, <<Call("client.delete_one", 1),
                              Call("website.delete_many", Cardinality(find(store.website, client_id))),
                              Call("seometric.delete_many", Cardinality(find(store.seometric, client_id))),
                              Call("gmbprofile.delete_many", Cardinality(find(store.gmbprofile, client_id)))>>))

\* DELETE /clients/{client_id}
delete_client(store, client_id) ==
    IF ~ObjectIdValid(client_id)
    THEN Result(store, Response(400, << >>))
    ELSE LET cid == to_object_id(client_id)
             deleted_count == Cardinality(find_one(store.client, cid))
             after == [client |-> delete_one(store.client, cid),
                       website |-> delete_many(store.website, client_id),
                       seometric |-> delete_many(store.seometric, client_id),
                       gmbprofile |-> delete_many(store.gmbprofile, client_id)]
             calls == <<Call("client.delete_one", deleted_count),
                        Call("website.delete_many", Cardinality(find(store.website, client_id))),
                        Call("seometric.delete_many", Cardinality(find(store.seometric, client_id))),
                        Call("gmbprofile.delete_many", Cardinality(find(store.gmbprofile, client_id)))>>
         IN  Result(after, Response(IF deleted_count = 0 THEN 404 ELSE 200, calls))

(***************************************************************************)
(* Requests and responses, and Spec: requests served one at a time.        *)
(***************************************************************************)
\* A request in flight (SpecConc): the handler's locals.
NoData == [client_id |-> NoText]

InFlight(op, pc, client_id, data, resp) ==
    [op |-> op, pc |-> pc, client_id |-> client_id, data |-> data, resp |-> resp,
     racer |-> 0, raced |-> FALSE]

Idle == InFlight("none", "idle", NoText, NoData, Response(0, << >>))

\* A request served: what was asked and what was answered.  raced is
\* history (SpecConc): the parent of this create was deleted, by a
\* delete_client that returned, between the create's check and its insert.
Answered(op, client_id, fields, resp, raced) ==
    [op |-> op, client_id |-> client_id, fields |-> fields, resp |-> resp, raced |-> raced]

Served(op, client_id, fields, resp) == Answered(op, client_id, fields, resp, FALSE)

NoFields == [name |-> ""]

NoRequest == Served("none", NoText, NoFields, Response(0, << >>))

Init ==
    /\ db = EmptyDb
    /\ nextId = 1
    /\ last = NoRequest
    /\ reqs = [w \in 1..MaxWorkers |-> Idle]

Creates == {"create_client", "create_website", "create_seo_metric", "create_gmb_profile"}

\* Serve one request whole.  An insert needs an identifier the store has left.
Serve(op, client_id, fields, r) ==
    /\ (op \in Creates /\ r.resp.status = 200) => nextId <= MaxOid
    /\ db' = r.db
    /\ nextId' = IF op \in Creates /\ r.resp.status = 200 THEN nextId + 1 ELSE nextId
    /\ last' = Served(op, client_id, fields, r.resp)
    /\ UNCHANGED reqs

Call_create_client ==
    /\ last = NoRequest
    /\ \E client \in ClientPayloads :
           /\ nextId <= MaxOid
           /\ Serve("create_client", NoText, client, create_client(db, ObjectId(nextId), client))

Call_create_website ==
    /\ last = NoRequest
    /\ \E website \in WebsitePayloads :
           Serve("create_website", website.client_id, NoFields,
                 create_website(db, ObjectId(nextId), website))

Call_create_seo_metric ==
    /\ last = NoRequest
    /\ \E metric \in SeoMetricPayloads :
           Serve("create_seo_metric", metric.client_id, NoFields,
                 create_seo_metric(db, ObjectId(nextId), metric))

Call_create_gmb_profile ==
    /\ last = NoRequest
    /\ \E profile \in GmbProfilePayloads :
           Serve("create_gmb_profile", profile.client_id, NoFields,
                 create_gmb_profile(db, ObjectId(nextId), profile))

Call_list_clients ==
    /\ last = NoRequest
    /\ Serve("list_clients", NoText, NoFields, list_clients(db))

Call_get_client_detail ==
    /\ last = NoRequest
    /\ \E client_id \in IdStrings :
           \E r \in get_client_detail(db, client_id) :
               Serve("get_client_detail", client_id, NoFields, r)

Call_delete_client ==
    /\ last = NoRequest
    /\ \E client_id \in IdStrings :
           Serve("delete_client", client_id, NoFields, delete_client(db, client_id))

\* The response goes out to the caller.  It touches neither the store nor a
\* handler's locals, so it is taken before the next step of any request.
Return_response ==
    /\ last # NoRequest
    /\ last' = NoRequest
    /\ UNCHANGED <<db, nextId, reqs>>

Next ==
    \/ Return_response
    \/ Call_create_client
    \/ Call_create_website
    \/ Call_create_seo_metric
    \/ Call_create_gmb_profile
    \/ Call_list_clients
    \/ Call_get_client_detail
    \/ Call_delete_client

Spec == Init /\ [][Next]_vars

(***************************************************************************)
(* SpecConc: the requests that write (the creates and delete_client), each *)
(* worker serving one at a time, the workers interleaving between store    *)
(* calls.  The reads change nothing and are left to Spec.  A request in    *)
(* flight carries the handler's locals: its position, the payload, and the *)
(* response so far.  When a handler returns, its response becomes `last`   *)
(* and the worker is idle again.  racer and raced are history: racer is    *)
(* the worker whose delete_client removed this create's parent after the   *)
(* create's existence check, and raced says that delete_client has since   *)
(* returned.                                                               *)
(***************************************************************************)
Workers == 1..MaxWorkers

CollectionOf(op) ==
    CASE op = "create_website" -> "website"
      [] op = "create_seo_metric" -> "seometric"
      [] op = "create_gmb_profile" -> "gmbprofile"

\* The inputs of SpecConc: the identifiers the store can have assigned, as
\* str(ObjectId) spells them, and one malformed text; one payload of each
\* kind per client_id.
ConcIdStrings == {s \in IdStrings : s.len = 24 /\ s.val <= MaxOidConc /\ ~s.upper}

ConcClientPayloads == {client \in ClientPayloads : client.name = "Acme"}

DependentPayloads(op) ==
    CASE op = "create_website" -> {p \in WebsitePayloads : p.client_id \in ConcIdStrings}
      [] op = "create_seo_metric" ->
           {p \in SeoMetricPayloads : p.client_id \in ConcIdStrings /\ p.date = None}
      [] op = "create_gmb_profile" -> {p \in GmbProfilePayloads : p.client_id \in ConcIdStrings}

\* A worker whose create is between its existence check and its insert.
Waiting(w) == reqs[w].pc = "insert"

\* Worker w returns resp.
Return(w, op, client_id, fields, resp) ==
    /\ reqs' = [reqs EXCEPT ![w] = Idle]
    /\ last' = Answered(op, client_id, fields, resp, reqs[w].raced)

\* create_client: one store call.
Step_create_client(w) ==
    /\ last = NoRequest
    /\ \E client \in ConcClientPayloads :
           /\ reqs[w].pc = "idle"
           /\ nextId <= MaxOidConc
           /\ LET r == create_client(db, ObjectId(nextId), client)
              IN  /\ db' = r.db
                  /\ Return(w, "create_client", NoText, client, r.resp)
           /\ nextId' = nextId + 1

\* create_website, create_seo_metric, create_gmb_profile up to the
\* existence check: to_object_id, then find_one.
Step_create_check(w) ==
    /\ last = NoRequest
    /\ \E op \in {"create_website", "create_seo_metric", "create_gmb_profile"} :
           \E data \in DependentPayloads(op) :
               /\ reqs[w].pc = "idle"
               /\ IF ~ObjectIdValid(data.client_id)
                  THEN Return(w, op, data.client_id, NoFields, Response(400, << >>))
                  ELSE LET cid == to_object_id(data.client_id)
                           calls == <<Call("client.find_one", Cardinality(find_one(db.client, cid)))>>
                       IN  IF ~ClientExists(db, cid)
                           THEN Return(w, op, data.client_id, NoFields, Response(404, calls))
                           ELSE /\ reqs' = [reqs EXCEPT ![w] =
                                      InFlight(op, "insert", data.client_id, data, Response(0, calls))]
                                /\ UNCHANGED last
               /\ UNCHANGED <<db, nextId>>

\* An insert that looks the parent up again and refuses when it is gone.
insert_dependent_checked(store, oid, req) ==
    IF ClientExists(store, to_object_id(req.client_id))
    THEN LET r == create_document(store, CollectionOf(req.op), req.data, oid)
         IN  Result(r.db, [req.resp EXCEPT !.status = 200, !.id = r.id,
                              !.calls = Append(@, Call(CollectionOf(req.op) \o ".insert_one", 1))])
    ELSE Result(store, [req.resp EXCEPT !.status = 404])

\* The rest of a dependent's create: create_document, then return the id.
insert_dependent(store, oid, req) ==
    LET r == create_document(store, CollectionOf(req.op), req.data, oid)
    IN  Result(r.db, [req.resp EXCEPT !.status = 200, !.id = r.id,
                         !.calls = Append(@, Call(CollectionOf(req.op) \o ".insert_one", 1))])

Step_create_insert(w) ==
    /\ last = NoRequest
    /\ reqs[w].pc = "insert"
    /\ nextId <= MaxOidConc
    /\ LET r == insert_dependent(db, ObjectId(nextId), reqs[w])
       IN  /\ db' = r.db
           /\ Return(w, reqs[w].op, reqs[w].client_id, NoFields, r.resp)
           /\ nextId' = IF r.resp.status = 200 THEN nextId + 1 ELSE nextId

\* delete_client up to the Client's delete_one.
Step_delete_one(w) ==
    /\ last = NoRequest
    /\ \E client_id \in ConcIdStrings :
           /\ reqs[w].pc = "idle"
           /\ IF ~ObjectIdValid(client_id)
              THEN /\ Return(w, "delete_client", client_id, NoFields, Response(400, << >>))
                   /\ UNCHANGED db
              ELSE LET cid == to_object_id(client_id)
                       deleted_count == Cardinality(find_one(db.client, cid))
                       racing(v) == /\ v # w /\ Waiting(v) /\ deleted_count = 1
                                    /\ to_object_id(reqs[v].client_id) = cid
                   IN  /\ db' = [db EXCEPT !.client = delete_one(@, cid)]
                       /\ reqs' = [v \in Workers |->
                            IF v = w
                            THEN InFlight("delete_client", "delete_website", client_id, NoData,
                                          Response(0, <<Call("client.delete_one", deleted_count)>>))
                            ELSE IF racing(v) THEN [reqs[v] EXCEPT !.racer = w]
                            ELSE reqs[v]]
                       /\ UNCHANGED last
           /\ UNCHANGED nextId

\* delete_client: the cascade, one delete_many per store call, then the
\* response from deleted_count.
Step_delete_many(w) ==
    /\ last = NoRequest
    /\ reqs[w].op = "delete_client"
    /\ \/ /\ reqs[w].pc = "delete_website"
          /\ db' = [db EXCEPT !.website = delete_many(@, reqs[w].client_id)]
          /\ reqs' = [reqs EXCEPT ![w].pc = "delete_seometric",
                ![w].resp.calls = Append(@, Call("website.delete_many",
                                         Cardinality(find(db.website, reqs[w].client_id))))]
          /\ UNCHANGED last
       \/ /\ reqs[w].pc = "delete_seometric"
          /\ db' = [db EXCEPT !.seometric = delete_many(@, reqs[w].client_id)]
          /\ reqs' = [reqs EXCEPT ![w].pc = "delete_gmbprofile",
                ![w].resp.calls = Append(@, Call("seometric.delete_many",
                                         Cardinality(find(db.seometric, reqs[w].client_id))))]
          /\ UNCHANGED last
       \/ /\ reqs[w].pc = "delete_gmbprofile"
          /\ db' = [db EXCEPT !.gmbprofile = delete_many(@, reqs[w].client_id)]
          /\ reqs' = [v \in Workers |->
                IF v = w THEN Idle
                ELSE IF Waiting(v) /\ reqs[v].racer = w THEN [reqs[v] EXCEPT !.raced = TRUE]
                ELSE reqs[v]]
          /\ last' = Served("delete_client", reqs[w].client_id, NoFields,
                  [reqs[w].resp EXCEPT
                     !.status = IF reqs[w].resp.calls[1].n = 0 THEN 404 ELSE 200,
                     !.calls = Append(@, Call("gmbprofile.delete_many",
                                         Cardinality(find(db.gmbprofile, reqs[w].client_id))))])
    /\ UNCHANGED nextId

NextConc ==
    \/ Return_response
    \/ \E w \in Workers :
        \/ Step_create_client(w)
        \/ Step_create_check(w)
        \/ Step_create_insert(w)
        \/ Step_delete_one(w)
        \/ Step_delete_many(w)

SpecConc == Init /\ [][NextConc]_vars

(***************************************************************************)
(* What the properties below speak of.  These read the identifier texts    *)
(* directly, not through the handlers' own conversion.                     *)
(***************************************************************************)
DependentCreates == {"create_website", "create_seo_metric", "create_gmb_profile"}

WellFormed(s) == s \in WellFormedTexts

\* The identifier a well-formed text denotes.
Denotes(s) == [bytes |-> s.val]

\* Document d of a dependent collection references the Client with ObjectId oid.
Refers(d, oid) == WellFormed(d.client_id) /\ Denotes(d.client_id) = oid

ClientWith(store, oid) == {c \in store.client : c._id = oid}

\* The elements of a list.
Listed(seq) == {seq[i] : i \in DOMAIN seq}

\* A stored document as a response shows it: the identifier as text.
Shown(d) == [d EXCEPT !._id = Text(24, TRUE, @.bytes, FALSE)]

----------------------------------------------------------------------------
\* C1: a dependent's create whose client_id is well formed and matches no
\* Client answers 404 and leaves the store as it was.
C1_MissingParentRejected ==
    [][(/\ last'.op \in DependentCreates
        /\ WellFormed(last'.client_id)
        /\ ClientWith(db, Denotes(last'.client_id)) = {})
       => (last'.resp.status = 404 /\ db' = db)]_vars

\* C1 witness: such a create was refused while other Clients were stored.
C1_Witness ==
    /\ last.op \in DependentCreates
    /\ WellFormed(last.client_id)
    /\ last.resp.status = 404
    /\ db.client # {}
    /\ ClientWith(db, Denotes(last.client_id)) = {}

\* C2: a dependent's create whose client_id does not convert answers 400,
\* makes no store call (so no Client lookup), and creates nothing.
C2_MalformedRejectedFirst ==
    [][(last'.op \in DependentCreates /\ last'.client_id \in MalformedTexts)
       => (last'.resp.status = 400 /\ last'.resp.calls = << >> /\ db' = db)]_vars

\* C2 witness: a malformed client_id was refused while a Client whose
\* identifier has the same digits was stored.
C2_Witness ==
    /\ last.op \in DependentCreates
    /\ last.client_id \in MalformedTexts
    /\ last.resp.status = 400
    /\ ClientWith(db, Denotes(last.client_id)) # {}

\* C3: delete_client on the id of a stored Client answers 200; afterwards
\* the store holds neither that Client nor a dependent that references it,
\* and get_client_detail on that id answers 404.
C3_DeleteRemovesClientAndDependents ==
    [][(/\ last'.op = "delete_client"
        /\ WellFormed(last'.client_id)
        /\ ClientWith(db, Denotes(last'.client_id)) # {})
       => (/\ last'.resp.status = 200
           /\ ClientWith(db', Denotes(last'.client_id)) = {}
           /\ \A coll \in Dependents : \A d \in db'[coll] :
                  ~Refers(d, Denotes(last'.client_id))
           /\ \A r \in get_client_detail(db', last'.client_id) : r.resp.status = 404)]_vars

\* C4: delete_client on a well-formed id that matches no Client answers 404,
\* and still each delete_many of the cascade runs: every dependent whose
\* client_id is that text is gone, and nothing else changes.
C4_CascadeRunsOn404 ==
    [][(/\ last'.op = "delete_client"
        /\ WellFormed(last'.client_id)
        /\ ClientWith(db, Denotes(last'.client_id)) = {})
       => (/\ last'.resp.status = 404
           /\ db'.client = db.client
           /\ \A coll \in Dependents :
                  db'[coll] = {d \in db[coll] : d.client_id # last'.client_id}
           /\ Len(last'.resp.calls) = 4
           /\ \A i \in 2..4 : last'.resp.calls[i].call \in
                  {coll \o ".delete_many" : coll \in Dependents})]_vars

\* C4 witness: a delete_client answered 404 and its cascade deleted a
\* document.
C4_Witness ==
    /\ last.op = "delete_client"
    /\ last.resp.status = 404
    /\ \E i \in DOMAIN last.resp.calls : last.resp.calls[i].n > 0

\* C5 as claimed: get_client_detail answers 404 when the id matches no Client
\* and when the id is malformed.
C5_DetailAnswers404 ==
    (/\ last.op = "get_client_detail"
     /\ \/ last.client_id \in MalformedTexts
        \/ WellFormed(last.client_id) /\ ClientWith(db, Denotes(last.client_id)) = {})
    => last.resp.status = 404

\* C5 amended: get_client_detail answers 404 when the id is well formed and
\* matches no Client, and 400 when the id is malformed.
C5_DetailAnswers404Or400 ==
    last.op = "get_client_detail"
    => /\ (WellFormed(last.client_id) /\ ClientWith(db, Denotes(last.client_id)) = {})
            => last.resp.status = 404
       /\ last.client_id \in MalformedTexts => last.resp.status = 400

\* C5 witness: get_client_detail refused a malformed id.
C5_Witness ==
    /\ last.op = "get_client_detail"
    /\ last.client_id \in MalformedTexts
    /\ last.resp.status = 400
    /\ db.client # {}

\* C6: for a stored Client, get_client_detail returns that Client and
\* exactly the stored Websites, SeoMetrics and GmbProfiles that reference
\* it, the SeoMetrics by date descending where they carry a date.
C6_DetailReturnsAllDependents ==
    (last.op = "get_client_detail" /\ last.resp.status = 200)
    => LET oid == Denotes(last.client_id)
           mine(coll) == {Shown(d) : d \in {x \in db[coll] : Refers(x, oid)}}
           seo == last.resp.seo
       IN  /\ last.resp.client = {Shown(c) : c \in ClientWith(db, oid)}
           /\ Listed(last.resp.websites) = mine("website")
           /\ Len(last.resp.websites) = Cardinality(mine("website"))
           /\ Listed(seo) = mine("seometric")
           /\ Len(seo) = Cardinality(mine("seometric"))
           /\ Listed(last.resp.gmb) = mine("gmbprofile")
           /\ Len(last.resp.gmb) = Cardinality(mine("gmbprofile"))
           /\ \A i, j \in DOMAIN seo :
                  (i < j /\ seo[i].date # None /\ seo[j].date # None)
                  => TextLeq(seo[j].date, seo[i].date)

C8_RaceLeavesOrphan ==
    [][\A w \in Workers :
         /\ (reqs[w].pc = "insert" /\ ~reqs[w].raced /\ reqs'[w].pc = "insert" /\ reqs'[w].raced)
            => (last'.op = "delete_client" /\ last'.resp.status = 200)
         /\ (reqs[w].pc = "insert" /\ reqs[w].raced /\ reqs'[w].pc = "idle")
            => /\ last'.op = reqs[w].op
               /\ last'.resp.status = 200
               /\ \E d \in db'[CollectionOf(reqs[w].op)] :
                      /\ Shown(d)._id = last'.resp.id
                      /\ d.client_id = reqs[w].client_id
                      /\ ClientWith(db', Denotes(d.client_id)) = {}]_vars

\* C8 witness: both requests have returned 200 and the orphan is stored.
C8_Witness ==
    /\ last.op \in DependentCreates
    /\ last.raced
    /\ last.resp.status = 200
    /\ \A w \in Workers : reqs[w].pc = "idle"
    /\ \E coll \in Dependents : \E d \in db[coll] :
           /\ Shown(d)._id = last.resp.id
           /\ ClientWith(db, Denotes(d.client_id)) = {}

\* C9: with requests served one at a time, every stored Website, SeoMetric
\* and GmbProfile references a stored Client.
C9_NoOrphans ==
    \A coll \in Dependents : \A d \in db[coll] :
        \E c \in db.client : Refers(d, c._id)

\* C10: delete_client(c) keeps every Client other than c and every dependent
\* whose client_id differs from c, and adds nothing; list_clients and
\* get_client_detail leave the store as it was.
C10_Frame ==
    [][/\ last'.op = "delete_client"
          => /\ \A c \in db.client :
                    (~WellFormed(last'.client_id) \/ c._id # Denotes(last'.client_id))
                    => c \in db'.client
             /\ db'.client \subseteq db.client
             /\ \A coll \in Dependents :
                    /\ \A d \in db[coll] : d.client_id # last'.client_id => d \in db'[coll]
                    /\ db'[coll] \subseteq db[coll]
       /\ last'.op \in {"list_clients", "get_client_detail"} => db' = db]_vars

\* C10 witness: a delete_client removed a Client and another Client and a
\* dependent of that other Client are still stored.
C10_Witness ==
    /\ last.op = "delete_client"
    /\ last.resp.status = 200
    /\ \E c \in db.client : \E coll \in Dependents : \E d \in db[coll] : Refers(d, c._id)

====
